---------------------------- MODULE Spec2Model ----------------------------
(***************************************************************************)
(* A model of the LS-8 emulator of cpu.py: the CPU object (ram, reg, pc,   *)
(* fl, SP), load() and the fetch-decode-execute loop run() with every      *)
(* instruction handler and the ALU.                                        *)
(*                                                                         *)
(* Python values.  ram cells and SP only ever hold ints (they are written  *)
(* from ram cells, from pc + 2 of a fetched instruction, or by +-1).  A    *)
(* register or pc may also hold a float, since DIV is Python's true        *)
(* division.  A register value and pc are therefore records               *)
(*     [n |-> numerator, d |-> denominator, f |-> is a float]              *)
(* in lowest terms with d > 0; an int k is [n |-> k, d |-> 1, f |-> FALSE].*)
(* Python ints are unbounded and floats are IEEE doubles: the model        *)
(* follows a run only while every number is exactly representable within   *)
(* MaxBits / MaxDenBits (a dyadic rational of small magnitude, on which    *)
(* double arithmetic is exact).                                            *)
(***************************************************************************)
EXTENDS Integers, Sequences, FiniteSets, TLC

(* -------------------------- bounds of the model ------------------------ *)

\* numbers are followed while |n| < 2^MaxBits
MaxBits == 14
\* floats are followed while their denominator is a power of two <= 2^MaxDenBits
MaxDenBits == 3
\* PRN is followed while fewer than MaxOutput lines have been printed
MaxOutput == 3
\* the number of instructions of the enumerated programs (see Alphabet)
MaxProgLen == 2
\* a run is followed while it has completed at most MaxCount PUSHes, POPs and RETs each
MaxCount == 512

(* ------------------------------ opcodes -------------------------------- *)

HLT == 1
LDI == 130
PRN == 71
PUSH == 69
POP == 70
CALL == 80
RET == 17
JMP == 84
JEQ == 85
JNE == 86

ADD == 160
MUL == 162
SUB == 161
DIV == 163
OR == 170
XOR == 171
SHL == 172
SHR == 173
CMP == 167

\* the values CMP stores in fl
FL_EQ == 2
FL_LT == 4
FL_GT == 1

\* len(self.ram), len(self.reg), the initial SP
RamSize == 256
RegCount == 8
StackTop == 244

\* self.in_table: opcode -> bound method
in_table ==
    (HLT :> "hlt") @@ (LDI :> "ldi") @@ (PRN :> "prn") @@ (PUSH :> "push") @@
    (POP :> "pop") @@ (CALL :> "call") @@ (RET :> "ret") @@ (JMP :> "jmp") @@
    (JEQ :> "jeq") @@ (JNE :> "jne")

(* --------------------------- Python numbers ---------------------------- *)

Abs(k) == IF k < 0 THEN -k ELSE k

RECURSIVE Pow2(_)
Pow2(k) == IF k <= 0 THEN 1 ELSE 2 * Pow2(k - 1)

RECURSIVE GCD(_, _)
GCD(a, b) == IF b = 0 THEN a ELSE GCD(b, a % b)

Limit == Pow2(MaxBits)
Denominators == {Pow2(e) : e \in 0..MaxDenBits}
IsPow2(k) == k \in Denominators

\* sys.float_info.max_exp: a double is finite while its magnitude is below 2^1024
FloatMaxExp == 1024

\* the int k
I(k) == [n |-> k, d |-> 1, f |-> FALSE, e |-> 0, s |-> ""]

\* the floats that are no number n/d * 2^e with n # 0, and the zeros 0.0 and -0.0
Inf == [n |-> 1, d |-> 1, f |-> TRUE, e |-> 0, s |-> "inf"]
NegInf == [n |-> -1, d |-> 1, f |-> TRUE, e |-> 0, s |-> "-inf"]
NaN == [n |-> 0, d |-> 1, f |-> TRUE, e |-> 0, s |-> "nan"]
Zero == [n |-> 0, d |-> 1, f |-> TRUE, e |-> 0, s |-> ""]
NegZero == [n |-> 0, d |-> 1, f |-> TRUE, e |-> 0, s |-> "-0.0"]
\* a float the model does not follow (see InModel)
Beyond == [n |-> 0, d |-> 1, f |-> TRUE, e |-> 0, s |-> "beyond"]

IsNaN(x) == x.s = "nan"
IsInf(x) == x.s \in {"inf", "-inf"}
IsFinite(x) == x.s \in {"", "-0.0"}
IsZero(x) == IsFinite(x) /\ x.n = 0
\* the sign bit of float(x): -1 or 1
Sign(x) == IF x.n < 0 \/ x.s = "-0.0" THEN -1 ELSE 1
SignedInf(sign) == IF sign < 0 THEN NegInf ELSE Inf
SignedZero(sign) == IF sign < 0 THEN NegZero ELSE Zero

\* the number of factors 2 of k # 0, and the number of bits of k >= 0
RECURSIVE TwoAdic(_)
TwoAdic(k) == IF k % 2 # 0 THEN 0 ELSE 1 + TwoAdic(k \div 2)
RECURSIVE BitLength(_)
BitLength(k) == IF k = 0 THEN 0 ELSE 1 + BitLength(k \div 2)

\* the float m * 2^x, m odd: written n/d with e = 0 while its magnitude is below
\* Limit, and else n * 2^e with a mantissa n of MaxBits bits; inf once it reaches
\* 2^FloatMaxExp
Dyadic(m, x) ==
    LET len == BitLength(Abs(m))
    IN  IF len > MaxBits \/ -x > MaxDenBits THEN Beyond
        ELSE IF len + x > FloatMaxExp THEN SignedInf(m)
        ELSE IF x < 0 THEN [n |-> m, d |-> Pow2(-x), f |-> TRUE, e |-> 0, s |-> ""]
        ELSE IF len + x <= MaxBits THEN [n |-> m * Pow2(x), d |-> 1, f |-> TRUE, e |-> 0, s |-> ""]
        ELSE [n |-> m * Pow2(MaxBits - len), d |-> 1, f |-> TRUE,
              e |-> x - (MaxBits - len), s |-> ""]

\* the float num/den * 2^e (num # 0, den # 0): exact when den is a power of two up
\* to a factor of num, which are the only quotients the model follows
Float(num, den, e) ==
    LET sd == IF den < 0 THEN -1 ELSE 1
        g == GCD(Abs(num), Abs(den))
        n0 == (sd * num) \div g
        d0 == (sd * den) \div g
        t == TwoAdic(n0)
    IN  IF d0 # Pow2(BitLength(d0) - 1) THEN Beyond
        ELSE Dyadic(n0 \div Pow2(t), e + t - (BitLength(d0) - 1))

\* the float num/den
F(num, den) == IF num = 0 THEN Zero ELSE Float(num, den, 0)

\* float(x)
ToFloat(x) == [x EXCEPT !.f = TRUE]

\* -x on floats
Neg(x) ==
    CASE x.s = "inf" -> NegInf
      [] x.s = "-inf" -> Inf
      [] x.s = "nan" -> NaN
      [] x.s = "-0.0" -> Zero
      [] x.s = "beyond" -> Beyond
      [] OTHER -> IF x.n = 0 THEN NegZero ELSE [x EXCEPT !.n = -x.n]

\* x + y on floats
FloatAdd(x, y) ==
    IF IsNaN(x) \/ IsNaN(y) THEN NaN
    ELSE IF IsInf(x) /\ IsInf(y) THEN (IF x.s = y.s THEN x ELSE NaN)
    ELSE IF IsInf(x) THEN x
    ELSE IF IsInf(y) THEN y
    ELSE IF IsZero(x) /\ IsZero(y) THEN (IF Sign(x) < 0 /\ Sign(y) < 0 THEN NegZero ELSE Zero)
    ELSE IF IsZero(x) THEN y
    ELSE IF IsZero(y) THEN x
    ELSE IF x.e # y.e THEN Beyond
    ELSE LET num == x.n * y.d + y.n * x.d
         IN  IF num = 0 THEN Zero ELSE Float(num, x.d * y.d, x.e)

PyAdd(x, y) == IF x.f \/ y.f THEN FloatAdd(ToFloat(x), ToFloat(y)) ELSE I(x.n + y.n)
PySub(x, y) == IF x.f \/ y.f THEN FloatAdd(ToFloat(x), Neg(ToFloat(y))) ELSE I(x.n - y.n)

\* x * y on floats
FloatMul(x, y) ==
    IF IsNaN(x) \/ IsNaN(y) THEN NaN
    ELSE IF IsInf(x) \/ IsInf(y)
         THEN (IF IsZero(x) \/ IsZero(y) THEN NaN ELSE SignedInf(Sign(x) * Sign(y)))
    ELSE IF IsZero(x) \/ IsZero(y) THEN SignedZero(Sign(x) * Sign(y))
    ELSE Float(x.n * y.n, x.d * y.d, x.e + y.e)

PyMul(x, y) == IF x.f \/ y.f THEN FloatMul(ToFloat(x), ToFloat(y)) ELSE I(x.n * y.n)

\* true division: always a float (y is not zero)
PyTrueDiv(x, y) ==
    IF IsNaN(x) \/ IsNaN(y) THEN NaN
    ELSE IF IsInf(x) THEN (IF IsInf(y) THEN NaN ELSE SignedInf(Sign(x) * Sign(y)))
    ELSE IF IsInf(y) \/ IsZero(x) THEN SignedZero(Sign(x) * Sign(y))
    ELSE Float(x.n * y.d, x.d * y.n, x.e - y.e)

\* comparisons are exact, also between an int and a float; none holds of a nan
FiniteLt(x, y) ==
    IF x.e = y.e THEN x.n * y.d < y.n * x.d
    ELSE IF x.e > y.e THEN x.n < 0
    ELSE y.n > 0

PyEq(x, y) ==
    IF IsNaN(x) \/ IsNaN(y) THEN FALSE
    ELSE IF IsInf(x) \/ IsInf(y) THEN x.s = y.s
    ELSE x.e = y.e /\ x.n * y.d = y.n * x.d

PyLt(x, y) ==
    IF IsNaN(x) \/ IsNaN(y) THEN FALSE
    ELSE IF x.s = "inf" \/ y.s = "-inf" THEN FALSE
    ELSE IF x.s = "-inf" \/ y.s = "inf" THEN TRUE
    ELSE FiniteLt(x, y)

PyGt(x, y) == PyLt(y, x)

\* bitwise operators on unbounded two's-complement ints
BitOf(op, p, q) ==
    CASE op = "and" -> IF p = 1 /\ q = 1 THEN 1 ELSE 0
      [] op = "or"  -> IF p = 1 \/ q = 1 THEN 1 ELSE 0
      [] op = "xor" -> IF p # q THEN 1 ELSE 0

RECURSIVE BitOp(_, _, _)
BitOp(op, a, b) ==
    IF a \in {0, -1} /\ b \in {0, -1}
    THEN -BitOf(op, -a, -b)
    ELSE 2 * BitOp(op, a \div 2, b \div 2) + BitOf(op, a % 2, b % 2)

\* a >> k on ints, k >= 0: floor division by 2^k
PyShr(a, k) == IF k > MaxBits + 1 THEN (IF a < 0 THEN -1 ELSE 0) ELSE a \div Pow2(k)
\* a << k on ints, k >= 0 (computed while the result stays in the model's range)
PyShl(a, k) == IF a = 0 THEN 0 ELSE IF k > MaxBits THEN a * Pow2(MaxBits) ELSE a * Pow2(k)

\* the numbers the model follows
InModel(x) == x.s # "beyond" /\ Abs(x.n) < Limit /\ IsPow2(x.d)

\* list[i]: valid for an int i with -len <= i < len, a negative i counting from the end
ValidIndex(i, len) == -len <= i /\ i < len
ListIndex(i, len) == IF i < 0 THEN i + len ELSE i

(* ------------------------------ str() ---------------------------------- *)

Digit(k) == <<"0", "1", "2", "3", "4", "5", "6", "7", "8", "9">>[k + 1]

RECURSIVE StrNat(_)
StrNat(k) == IF k < 10 THEN Digit(k) ELSE StrNat(k \div 10) \o Digit(k % 10)

\* the decimal digits of r/den, 0 < r < den, den a power of two
RECURSIVE StrFrac(_, _)
StrFrac(r, den) ==
    IF r = 0 THEN "" ELSE Digit((10 * r) \div den) \o StrFrac((10 * r) % den, den)

\* a float of 2^MaxBits or more, whose digits the model does not compute
Unprintable == "?"

\* str(x), as print writes it
PyStr(x) ==
    LET sign == IF x.n < 0 THEN "-" ELSE ""
        whole == Abs(x.n) \div x.d
        rest == Abs(x.n) % x.d
    IN  IF ~x.f THEN sign \o StrNat(whole)
        ELSE IF x.s # "" THEN x.s
        ELSE IF x.e > 0 THEN Unprintable
        ELSE sign \o StrNat(whole) \o "." \o (IF rest = 0 THEN "0" ELSE StrFrac(rest, x.d))

(* ------------------------------ the CPU -------------------------------- *)

VARIABLES
    ram,      \* self.ram: 256 ints
    reg,      \* self.reg: 8 numbers
    pc,       \* self.pc: a number
    fl,       \* self.fl: {} for None, else {flag}
    SP,       \* self.SP: an int
    status,   \* "Created", "Running" (in run()), "Halted" (sys.exit()), "Crashed" (an exception left run())
    err,      \* the exception that ended the run, "" if none
    output,   \* the lines printed to stdout
    program,  \* history: the bytes load() stored
    last,     \* history: the step taken last, with the state it started from
    executed  \* history: how many PUSH, POP and RET instructions have returned, and
              \* whether a CALL has

cpuVars == <<ram, reg, pc, fl, SP, status, err, output>>
vars == <<ram, reg, pc, fl, SP, status, err, output, program, last, executed>>

RamAddrs == 0..(RamSize - 1)
RegIdx == 0..(RegCount - 1)

\* the CPU object as one value, for the handlers below
Self ==
    [ram |-> ram, reg |-> reg, pc |-> pc, fl |-> fl, SP |-> SP,
     status |-> status, err |-> err, output |-> output]

\* an uncaught exception: the run ends with whatever was mutated so far
Raise(self, e) == [self EXCEPT !.status = "Crashed", !.err = e]

\* __init__
NewCPU ==
    LET ram0 == [a \in RamAddrs |-> 0]
        reg0 == [r \in RegIdx |-> I(0)]
    IN  [ram |-> ram0,
         reg |-> [reg0 EXCEPT ![7] = I(ram0[StackTop])],
         pc |-> I(0), fl |-> {}, SP |-> StackTop,
         status |-> "Created", err |-> "", output |-> <<>>]

(* ------------------------------- load() -------------------------------- *)

\* the part of a line before the first "#": line.split("#")[0]
BeforeHash(line) ==
    LET hashes == {i \in 1..Len(line) : line[i] = "#"}
    IN  IF hashes = {} THEN line
        ELSE SubSeq(line, 1, (CHOOSE i \in hashes : \A j \in hashes : i <= j) - 1)

IsSpace(c) == c \in {" ", "\n"}

\* str.strip()
Strip(s) ==
    LET solid == {i \in 1..Len(s) : ~IsSpace(s[i])}
    IN  IF solid = {} THEN <<>>
        ELSE SubSeq(s, CHOOSE i \in solid : \A j \in solid : i <= j,
                       CHOOSE i \in solid : \A j \in solid : j <= i)

\* int(s, 2) raises ValueError unless s is a non-empty string of binary digits
IsBinary(s) == s # <<>> /\ \A i \in 1..Len(s) : s[i] \in {"0", "1"}

\* the value of the first k digits of s
RECURSIVE BinaryValue(_, _)
BinaryValue(s, k) ==
    IF k = 0 THEN 0 ELSE 2 * BinaryValue(s, k - 1) + (IF s[k] = "1" THEN 1 ELSE 0)

ParseBinary(s) == BinaryValue(s, Len(s))

\* the for loop of load(): [ram, n bytes stored, failed]
RECURSIVE LoadLines(_, _, _)
LoadLines(mem, lines, address) ==
    IF lines = <<>> THEN [ram |-> mem, n |-> address, failed |-> FALSE]
    ELSE LET line == Head(lines)
             binary == Strip(BeforeHash(line))
         IN  IF ~(Head(line) \in {"0", "1"})
             THEN LoadLines(mem, Tail(lines), address)
             ELSE IF ~IsBinary(binary) \/ address >= RamSize
             THEN [ram |-> mem, n |-> address, failed |-> TRUE]
             ELSE LoadLines([mem EXCEPT ![address] = ParseBinary(binary)],
                            Tail(lines), address + 1)

NotFoundMessage == "argv0: argv1 not found."

\* load(): every exception is caught, reported on stdout, and load() returns
load(self, f) ==
    LET r == IF f.found THEN LoadLines(self.ram, f.lines, 0)
             ELSE [ram |-> self.ram, n |-> 0, failed |-> TRUE]
    IN  [self EXCEPT !.ram = r.ram,
                     !.output = IF r.failed THEN Append(self.output, NotFoundMessage)
                                ELSE self.output]

(* ----------------------------- handlers -------------------------------- *)

\* hlt returning to the loop instead of leaving it
hlt_returns(self) == self

hlt(self) == [self EXCEPT !.status = "Halted"]

\* ldi advancing pc as an instruction with one operand
ldi_pc2(self, operand_a, operand_b) ==
    IF ~ValidIndex(operand_a, RegCount) THEN Raise(self, "IndexError")
    ELSE [self EXCEPT !.reg[ListIndex(operand_a, RegCount)] = I(operand_b),
                      !.pc = PyAdd(self.pc, I(2))]

ldi(self, operand_a, operand_b) ==
    IF ~ValidIndex(operand_a, RegCount) THEN Raise(self, "IndexError")
    ELSE [self EXCEPT !.reg[ListIndex(operand_a, RegCount)] = I(operand_b),
                      !.pc = PyAdd(self.pc, I(3))]

\* prn printing its operand instead of the register the operand names
prn_operand(self, operand_a) ==
    IF ~ValidIndex(operand_a, RegCount) THEN Raise(self, "IndexError")
    ELSE [self EXCEPT !.output = Append(self.output, PyStr(I(operand_a))),
                      !.pc = PyAdd(self.pc, I(2))]

prn(self, operand_a) ==
    IF ~ValidIndex(operand_a, RegCount) THEN Raise(self, "IndexError")
    ELSE [self EXCEPT !.output = Append(self.output, PyStr(self.reg[ListIndex(operand_a, RegCount)])),
                      !.pc = PyAdd(self.pc, I(2))]

push(self, operand_a) ==
    LET s1 == [self EXCEPT !.SP = self.SP - 1]
    IN  IF ~ValidIndex(operand_a, RamSize) THEN Raise(s1, "IndexError")
        ELSE IF ~ValidIndex(s1.SP, RamSize) THEN Raise(s1, "IndexError")
        ELSE [s1 EXCEPT !.ram[ListIndex(s1.SP, RamSize)] = self.ram[ListIndex(operand_a, RamSize)],
                        !.pc = PyAdd(self.pc, I(2))]

\* pop clearing the cell it has read
pop_clears(self, operand_a) ==
    IF ~ValidIndex(self.SP, RamSize) THEN Raise(self, "IndexError")
    ELSE IF ~ValidIndex(operand_a, RegCount) THEN Raise(self, "IndexError")
    ELSE [self EXCEPT !.reg[ListIndex(operand_a, RegCount)] = I(self.ram[ListIndex(self.SP, RamSize)]),
                      !.ram[ListIndex(self.SP, RamSize)] = 0,
                      !.SP = self.SP + 1,
                      !.pc = PyAdd(self.pc, I(2))]

pop(self, operand_a) ==
    IF ~ValidIndex(self.SP, RamSize) THEN Raise(self, "IndexError")
    ELSE IF ~ValidIndex(operand_a, RegCount) THEN Raise(self, "IndexError")
    ELSE [self EXCEPT !.reg[ListIndex(operand_a, RegCount)] = I(self.ram[ListIndex(self.SP, RamSize)]),
                      !.SP = self.SP + 1,
                      !.pc = PyAdd(self.pc, I(2))]

call(self, operand_a) ==
    LET s1 == [self EXCEPT !.SP = self.SP - 1]
        next_instruction_address == self.pc.n + 2
        s2 == [s1 EXCEPT !.ram[ListIndex(s1.SP, RamSize)] = next_instruction_address]
    IN  IF ~ValidIndex(s1.SP, RamSize) THEN Raise(s1, "IndexError")
        ELSE IF ~ValidIndex(operand_a, RamSize) THEN Raise(s2, "IndexError")
        ELSE [s2 EXCEPT !.SP = s2.ram[ListIndex(operand_a, RamSize)]]

\* ret leaving the return address on the stack
ret_keeps_SP(self) ==
    IF ~ValidIndex(self.SP, RamSize) THEN Raise(self, "IndexError")
    ELSE [self EXCEPT !.pc = I(self.ram[ListIndex(self.SP, RamSize)])]

ret(self) ==
    IF ~ValidIndex(self.SP, RamSize) THEN Raise(self, "IndexError")
    ELSE [self EXCEPT !.pc = I(self.ram[ListIndex(self.SP, RamSize)]),
                      !.SP = self.SP + 1]

jmp(self, operand_a) ==
    IF ~ValidIndex(operand_a, RegCount) THEN Raise(self, "IndexError")
    ELSE [self EXCEPT !.pc = self.reg[ListIndex(operand_a, RegCount)]]

jeq(self, operand_a) ==
    IF self.fl = {FL_EQ}
    THEN IF ~ValidIndex(operand_a, RegCount) THEN Raise(self, "IndexError")
         ELSE [self EXCEPT !.pc = self.reg[ListIndex(operand_a, RegCount)]]
    ELSE [self EXCEPT !.pc = PyAdd(self.pc, I(2))]

\* jne jumping on less-than only
jne_less_only(self, operand_a) ==
    IF self.fl = {FL_LT}
    THEN IF ~ValidIndex(operand_a, RegCount) THEN Raise(self, "IndexError")
         ELSE [self EXCEPT !.pc = self.reg[ListIndex(operand_a, RegCount)]]
    ELSE [self EXCEPT !.pc = PyAdd(self.pc, I(2))]

jne(self, operand_a) ==
    IF self.fl # {FL_EQ}
    THEN IF ~ValidIndex(operand_a, RegCount) THEN Raise(self, "IndexError")
         ELSE [self EXCEPT !.pc = self.reg[ListIndex(operand_a, RegCount)]]
    ELSE [self EXCEPT !.pc = PyAdd(self.pc, I(2))]

(* -------------------------------- alu() -------------------------------- *)

AluOps == {ADD, MUL, SUB, DIV, OR, XOR, SHL, SHR, CMP}

\* the exception the operation raises on x, y ("" if none)
AluError(op, x, y) ==
    CASE op = DIV -> IF IsZero(y) THEN "ZeroDivisionError" ELSE ""
      [] op \in {OR, XOR} -> IF x.f \/ y.f THEN "TypeError" ELSE ""
      [] op \in {SHL, SHR} -> IF x.f \/ y.f THEN "TypeError"
                              ELSE IF y.n < 0 THEN "ValueError" ELSE ""
      [] OTHER -> ""

\* ADD computed as a bitwise or
AluValue_add_as_or(op, x, y) ==
    CASE op \in {ADD, OR} -> I(BitOp("or", x.n, y.n))
      [] op = MUL -> PyMul(x, y)
      [] op = SUB -> PySub(x, y)
      [] op = DIV -> PyTrueDiv(x, y)
      [] op = XOR -> I(BitOp("xor", x.n, y.n))
      [] op = SHL -> I(PyShl(x.n, y.n))
      [] op = SHR -> I(PyShr(x.n, y.n))

\* the value the operation stores in reg[reg_a]
AluValue(op, x, y) ==
    CASE op = ADD -> PyAdd(x, y)
      [] op = MUL -> PyMul(x, y)
      [] op = SUB -> PySub(x, y)
      [] op = DIV -> PyTrueDiv(x, y)
      [] op = OR  -> I(BitOp("or", x.n, y.n))
      [] op = XOR -> I(BitOp("xor", x.n, y.n))
      [] op = SHL -> I(PyShl(x.n, y.n))
      [] op = SHR -> I(PyShr(x.n, y.n))

\* the flag CMP stores; {}: none of its three comparisons holds and it stores none
CmpFlag(a, b) ==
    IF PyEq(a, b) THEN {FL_EQ}
    ELSE IF PyLt(a, b) THEN {FL_LT}
    ELSE IF PyGt(a, b) THEN {FL_GT}
    ELSE {}

\* alu advancing pc before it operates, so that a raising operation leaves pc moved
alu_pc_first(self, op, reg_a, reg_b) ==
    LET moved == [self EXCEPT !.pc = PyAdd(self.pc, I(3))]
    IN  IF op \notin AluOps THEN Raise(self, "Exception")
        ELSE IF ~ValidIndex(reg_a, RegCount) \/ ~ValidIndex(reg_b, RegCount)
        THEN Raise(moved, "IndexError")
        ELSE LET ia == ListIndex(reg_a, RegCount)
                 x == self.reg[ia]
                 y == self.reg[ListIndex(reg_b, RegCount)]
             IN  IF op = CMP
                 THEN [moved EXCEPT !.fl = IF CmpFlag(x, y) = {} THEN self.fl ELSE CmpFlag(x, y)]
                 ELSE IF AluError(op, x, y) # "" THEN Raise(moved, AluError(op, x, y))
                 ELSE [moved EXCEPT !.reg[ia] = AluValue(op, x, y)]

alu(self, op, reg_a, reg_b) ==
    IF op \notin AluOps THEN Raise(self, "Exception")
    ELSE IF ~ValidIndex(reg_a, RegCount) \/ ~ValidIndex(reg_b, RegCount)
    THEN Raise(self, "IndexError")
    ELSE LET ia == ListIndex(reg_a, RegCount)
             x == self.reg[ia]
             y == self.reg[ListIndex(reg_b, RegCount)]
         IN  IF op = CMP
             THEN [self EXCEPT !.fl = IF CmpFlag(x, y) = {} THEN self.fl ELSE CmpFlag(x, y),
                               !.pc = PyAdd(self.pc, I(3))]
             ELSE IF AluError(op, x, y) # "" THEN Raise(self, AluError(op, x, y))
             ELSE [self EXCEPT !.reg[ia] = AluValue(op, x, y),
                               !.pc = PyAdd(self.pc, I(3))]

(* -------------------------------- run() -------------------------------- *)

\* the exception the three reads at the top of the loop raise ("" if none)
FetchError(self) ==
    IF self.pc.f THEN "TypeError"
    ELSE IF \E k \in 0..2 : ~ValidIndex(self.pc.n + k, RamSize) THEN "IndexError"
    ELSE ""

\* self.ram[self.pc + k]
Fetch(self, k) == self.ram[ListIndex(self.pc.n + k, RamSize)]

IR == Fetch(Self, 0)
operand_a == Fetch(Self, 1)
operand_b == Fetch(Self, 2)

cpu_instruct(ir) == PyShr(BitOp("and", ir, 192), 6)
alu_instruct(ir) == PyShr(BitOp("and", ir, 32), 5)

\* the handler the if/elif chain of run() calls for opcode ir
\* ("KeyError": self.in_table[IR] has no such key)
Handler(ir) ==
    IF ir = CALL THEN in_table[ir]
    ELSE IF ir = RET THEN in_table[ir]
    ELSE IF alu_instruct(ir) # 0 THEN "alu"
    ELSE IF cpu_instruct(ir) \in {0, 1, 2}
         THEN (IF ir \in DOMAIN in_table THEN in_table[ir] ELSE "KeyError")
    ELSE "hlt"

\* an instruction is being executed
Executing == status = "Running" /\ FetchError(Self) = ""

\* the states the model follows
Followed(m) ==
    /\ \A r \in RegIdx : InModel(m.reg[r])
    /\ InModel(m.pc)
    /\ Len(m.output) <= MaxOutput
    /\ \A i \in 1..Len(m.output) : m.output[i] # Unprintable

\* what the history keeps of the step before the last one
Brief(step) == [op |-> step.op, ir |-> step.ir, a |-> step.a, b |-> step.b, ok |-> step.ok]

\* a pass of the loop that called handler op; ok: no exception was raised
StepRecord(op, m) ==
    [op |-> op, ir |-> IR, pc |-> pc, a |-> operand_a, b |-> operand_b, reg |-> reg,
     SP |-> SP, ok |-> m.status # "Crashed", prev |-> Brief(last)]

\* a step that decodes no instruction: "init", "load", "fetch" (the fetch raised)
NoStep(op, ok, before) ==
    [op |-> op, ir |-> -1, pc |-> pc, a |-> 0, b |-> 0, reg |-> reg, SP |-> SP,
     ok |-> ok, prev |-> before]

NoBrief == [op |-> "none", ir |-> -1, a |-> 0, b |-> 0, ok |-> TRUE]

Become(m) ==
    /\ ram' = m.ram
    /\ reg' = m.reg
    /\ pc' = m.pc
    /\ fl' = m.fl
    /\ SP' = m.SP
    /\ status' = m.status
    /\ err' = m.err
    /\ output' = m.output

\* the instructions executed once handler h has returned
Tally(h) ==
    CASE h = "push" -> [executed EXCEPT !.push = @ + 1]
      [] h = "pop" -> [executed EXCEPT !.pop = @ + 1]
      [] h = "ret" -> [executed EXCEPT !.ret = @ + 1]
      [] h = "call" -> [executed EXCEPT !.call = TRUE]
      [] OTHER -> executed

\* one pass of the loop that dispatches to handler h with result m
Execute(h, result) ==
    /\ Executing
    /\ Handler(IR) = h
    /\ LET m == result
           tally == IF m.status = "Crashed" THEN executed ELSE Tally(h)
       IN  /\ Followed(m)
           /\ tally.push <= MaxCount /\ tally.pop <= MaxCount /\ tally.ret <= MaxCount
           /\ Become(m)
           /\ last' = StepRecord(h, m)
           /\ executed' = tally
    /\ UNCHANGED program

(* ------------------------------ the inputs ----------------------------- *)

\* a byte as a line of a program file
BitWeights == <<128, 64, 32, 16, 8, 4, 2, 1>>
Bin8(byte) ==
    [i \in 1..9 |-> IF i = 9 THEN "\n"
                    ELSE IF (byte \div BitWeights[i]) % 2 = 1 THEN "1" ELSE "0"]

FileOf(bytes) == [found |-> TRUE, lines |-> [i \in 1..Len(bytes) |-> Bin8(bytes[i])]]

\* the instructions of the enumerated programs: every opcode of in_table, some of
\* alu(), an opcode with three operands and no handler (192) and an ALU opcode
\* alu() does not know (164, MOD)
Alphabet ==
    {<<HLT>>, <<RET>>, <<192>>, <<LDI, 0, 8>>, <<LDI, 1, 2>>,
     <<PRN, 0>>, <<PUSH, 0>>, <<POP, 1>>, <<CALL, 1>>, <<JMP, 1>>, <<JEQ, 1>>, <<JNE, 1>>}
    \cup {<<op, 0, 1>> : op \in {ADD, SUB, DIV, CMP, 164}}

RECURSIVE Sequences(_)
Sequences(k) ==
    IF k = 0 THEN {<<>>} ELSE {p \o i : p \in Sequences(k - 1), i \in Alphabet}

EnumeratedPrograms == UNION {Sequences(k) : k \in 0..MaxProgLen}

SomeBytes == {0, 1, 9, 10, 99, 100, 255}
SomeRegs == {0, 3, 7}
SomeOperands == {0, 1, 2, 7, 8, 9, 128, 255}

LdiPrnPrograms == {<<LDI, r, v, PRN, r, HLT>> : r \in RegIdx, v \in SomeBytes}

PushPopPrograms ==
    {<<LDI, r, v, PUSH, r, POP, q, HLT>> : r \in SomeRegs, q \in SomeRegs, v \in {0, 8, 255}}

AluProgram(op, x, y) == <<LDI, 0, x, LDI, 1, y, op, 0, 1, PRN, 0, HLT>>
AluPrograms ==
    {AluProgram(op, x, y) : op \in AluOps \cup {164}, x \in SomeOperands, y \in SomeOperands}
AddProgram == AluProgram(ADD, 8, 9)

\* compare, then branch over "PRN 0; HLT" to "PRN 1; HLT" at address 17
BranchPrograms ==
    {<<LDI, 0, x, LDI, 1, y, LDI, 2, 17, CMP, 0, 1, j, 2, PRN, 0, HLT, PRN, 1, HLT>> :
        j \in {JMP, JEQ, JNE}, x \in {1, 2}, y \in {1, 2}}

\* a subroutine at address 8 that returns at once; a CALL whose operand names an
\* empty memory cell
CallPrograms ==
    {<<LDI, r, 8, CALL, r, PRN, r, HLT, RET>> : r \in {1, 2, 5}} \cup {<<CALL, 200>>}

\* jumps to the end of memory, below address 0 and to a float; register operands
\* that are no index of self.reg, or a negative one
EdgePrograms ==
    {<<LDI, 1, t, JMP, 1>> : t \in {253, 254, 255}}
    \cup {<<LDI, 1, 1, SUB, 0, 1, JMP, 0>>, <<LDI, 0, 1, LDI, 1, 2, DIV, 0, 1, JMP, 0>>}
    \cup {<<op, 8>> : op \in {PRN, POP, JMP, JNE, PUSH}}
    \cup {<<LDI, 8, 1>>, <<ADD, 0, 9>>, <<CMP, 200, 0>>, <<164, 8, 8>>}

\* floats: 128.0 squared until it is inf, inf - inf, and a CMP of the nan with
\* itself, after a CMP that set fl or after none, then printed; the zero -0.0
Squared(k) == [i \in 1..(3 * k) |-> <<MUL, 0, 0>>[((i - 1) % 3) + 1]]
FloatPrograms ==
    {first \o <<LDI, 0, 128, LDI, 1, 1, DIV, 0, 1>> \o Squared(8)
           \o <<SUB, 0, 0, CMP, 0, 0, PRN, 0, HLT>> : first \in {<<>>, <<CMP, 0, 1>>}}
    \cup {<<LDI, 0, 128, LDI, 1, 1, DIV, 0, 1>> \o Squared(8) \o tail :
             tail \in {<<CMP, 0, 1, PRN, 0, HLT>>, <<DIV, 1, 0, PRN, 1, HLT>>,
                       <<DIV, 0, 0, PRN, 0, HLT>>, <<MUL, 0, 2, PRN, 0, HLT>>,
                       <<SUB, 2, 0, PRN, 2, CMP, 2, 0, HLT>>, <<DIV, 0, 2>>}}
    \cup {<<LDI, 0, 1, SUB, 1, 0, DIV, 2, 1, PRN, 2, MUL, 1, 2, PRN, 1, SUB, 2, 3, PRN, 2, HLT>>,
          <<LDI, 0, 1, SUB, 1, 0, DIV, 2, 1, ADD, 2, 3, PRN, 2, MUL, 2, 1, ADD, 2, 2, PRN, 2, HLT>>,
          <<LDI, 0, 1, SUB, 1, 0, DIV, 2, 1, CMP, 2, 3, DIV, 0, 2>>}

\* two PUSHes undone by two POPs; a loop of PUSHes that fills the memory with the
\* PUSH opcode and goes on until the stack address leaves -256..255
StackPrograms ==
    {<<PUSH, 0, PUSH, 1, POP, 2, POP, 3, HLT>>, <<PUSH, 73, PUSH, 4, JNE, 6>>}

Programs ==
    FloatPrograms \cup StackPrograms \cup EnumeratedPrograms \cup LdiPrnPrograms \cup PushPopPrograms \cup AluPrograms
    \cup BranchPrograms \cup CallPrograms \cup EdgePrograms

\* files that load() does not read to the end, and one with comments
OddFiles ==
    {[found |-> FALSE, lines |-> <<>>],
     [found |-> TRUE,
      lines |-> <<Bin8(LDI), Bin8(0), <<"0", "1", "2", "\n">>, Bin8(PRN), Bin8(0), Bin8(HLT)>>],
     [found |-> TRUE,
      lines |-> <<<<"#", " ", "x", "\n">>, Bin8(PRN), <<"\n">>,
                  <<"0", "0", "0", "0", "0", "0", "0", "0", " ", "#", "r", "\n">>, Bin8(HLT)>>]}

Files == {FileOf(p) : p \in Programs} \cup OddFiles

(* --------------------------- the state machine ------------------------- *)

Init ==
    /\ ram = NewCPU.ram
    /\ reg = NewCPU.reg
    /\ pc = NewCPU.pc
    /\ fl = NewCPU.fl
    /\ SP = NewCPU.SP
    /\ status = NewCPU.status
    /\ err = NewCPU.err
    /\ output = NewCPU.output
    /\ program = <<>>
    /\ last = NoStep("init", TRUE, NoBrief)
    /\ executed = [push |-> 0, pop |-> 0, ret |-> 0, call |-> FALSE]

\* the number of cells up to the last one in lo..hi that is not 0 (lo if none)
RECURSIVE UsedCells(_, _, _)
UsedCells(mem, lo, hi) ==
    IF lo > hi THEN lo
    ELSE LET mid == (lo + hi) \div 2
         IN  IF \E a \in mid..hi : mem[a] # 0
             THEN (IF mem[hi] # 0 THEN hi + 1 ELSE UsedCells(mem, mid, hi - 1))
             ELSE UsedCells(mem, lo, mid - 1)

\* the memory image up to its last byte that is not 0
Image(mem) == [i \in 1..UsedCells(mem, 0, RamSize - 1) |-> mem[i - 1]]

\* cpu.load(), after which the caller enters cpu.run()
Load ==
    /\ status = "Created"
    /\ \E f \in Files :
        LET m == load(Self, f)
        IN  /\ Become([m EXCEPT !.status = "Running"])
            /\ program' = Image(m.ram)
    /\ last' = NoStep("load", TRUE, Brief(last))
    /\ UNCHANGED executed

\* the reads of IR, operand_a and operand_b raise
FetchFault ==
    /\ status = "Running"
    /\ FetchError(Self) # ""
    /\ Become(Raise(Self, FetchError(Self)))
    /\ last' = NoStep("fetch", FALSE, Brief(last))
    /\ UNCHANGED <<program, executed>>

\* self.in_table[IR] raises KeyError
NoHandler == Execute("KeyError", Raise(Self, "KeyError"))

Hlt == Execute("hlt", hlt(Self))
Ldi == Execute("ldi", ldi(Self, operand_a, operand_b))
Prn == Execute("prn", prn(Self, operand_a))
Push == Execute("push", push(Self, operand_a))
Pop == Execute("pop", pop(Self, operand_a))
Call == Execute("call", call(Self, operand_a))
Ret == Execute("ret", ret(Self))
Jmp == Execute("jmp", jmp(Self, operand_a))
Jeq == Execute("jeq", jeq(Self, operand_a))
Jne == Execute("jne", jne(Self, operand_a))
Alu == Execute("alu", alu(Self, IR, operand_a, operand_b))

Next ==
    \/ Load
    \/ FetchFault
    \/ NoHandler
    \/ Hlt
    \/ Ldi
    \/ Prn
    \/ Push
    \/ Pop
    \/ Call
    \/ Ret
    \/ Jmp
    \/ Jeq
    \/ Jne
    \/ Alu

Spec == Init /\ [][Next]_vars

(* ------------------------------ properties ----------------------------- *)

\* the register an operand names, and its value
RegOf(operand) == ListIndex(operand, RegCount)
Supported == DOMAIN in_table \cup AluOps

\* the handler h is executing now and returns normally
Does(h) == Executing /\ Handler(IR) = h /\ status' = "Running"

\* C1: for every register r holding v, PUSH r immediately followed by POP q leaves
\* register q equal to v and the stack pointer equal to its value before the PUSH.
C1_PushThenPop ==
    [][(/\ last.op = "push" /\ last.ok /\ last.a \in RegIdx
        /\ Does("pop") /\ operand_a \in RegIdx)
         => (/\ reg'[operand_a] = last.reg[last.a]
             /\ SP' = last.SP)]_vars

\* C2: a CALL at address p whose callee returns at once (the register holds the
\* address of a RET) is followed by that RET, which resumes at p + 2 with the stack
\* pointer restored to its value before the CALL.
CalleeIsRet(step) ==
    /\ step.a \in RegIdx
    /\ ~step.reg[step.a].f
    /\ step.reg[step.a].n \in RamAddrs
    /\ ram[step.reg[step.a].n] = RET

C2_CallThenRet ==
    [][(last.op = "call" /\ last.ok /\ CalleeIsRet(last) /\ status = "Running")
         => (/\ last'.op = "ret" /\ last'.ok
             /\ pc' = I(last.pc.n + 2)
             /\ SP' = last.SP)]_vars

\* C3: for r in 0..7 and v in 0..255, LDI r,v and then PRN r emits exactly the
\* decimal value v as one output line and leaves PC advanced by 3 + 2 = 5.
C3_LdiThenPrn ==
    [][(/\ last.op = "ldi" /\ last.ok /\ last.a \in RegIdx /\ last.b \in 0..255
        /\ Executing /\ Handler(IR) = "prn" /\ operand_a = last.a)
         => (/\ status' = "Running"
             /\ output' = Append(output, PyStr(I(last.b)))
             /\ pc' = I(last.pc.n + 5))]_vars

C3_Witness ==
    /\ last.op = "prn" /\ last.ok /\ last.a = 7
    /\ last.prev.op = "ldi" /\ last.prev.ok /\ last.prev.a = 7 /\ last.prev.b = 255
    /\ output = <<"255">>
    /\ pc = I(5)

\* C4: with LDI R0,8; LDI R1,9; ADD R0,R1; PRN R0; HLT loaded, the run eventually
\* reaches Halted and the complete output is the single line 17.  As a property of
\* states: the run never ends in an exception, while it is running another
\* instruction can always be executed and each one moves pc forward within the
\* program, and the output is empty or the single line 17 on the way and the
\* single line 17 once Halted.
C4_AddProgramHalts ==
    (program = AddProgram /\ status # "Created")
        => /\ status \in {"Running", "Halted"}
           /\ status = "Running" => ENABLED Next
           /\ (status = "Running" /\ last.op # "load") => pc.n > last.pc.n
           /\ pc.n \in 0..(Len(AddProgram) - 1)
           /\ output \in {<<>>, <<"17">>}
           /\ status = "Halted" => output = <<"17">>

C4_Witness == program = AddProgram /\ status = "Halted" /\ output = <<"17">> /\ last.op = "hlt"

\* C5: after CMP a,b with reg[a] < reg[b] FL is less-than, a JNE executed next is
\* taken and a JEQ executed next is not; JEQ jumps exactly when FL is equal and JNE
\* exactly when FL is not equal (also when FL is unset); a jump not taken advances
\* PC by 2.
\* the conditional jump h is being executed, its operand naming a register
Jumping(h) == Executing /\ Handler(IR) = h /\ ValidIndex(operand_a, RegCount)
Taken == status' = "Running" /\ pc' = reg[RegOf(operand_a)]
NotTaken == status' = "Running" /\ pc' = I(pc.n + 2)

C5_ConditionalJumps ==
    [][/\ (last.op = "alu" /\ last.ir = CMP /\ last.ok
              /\ PyLt(last.reg[RegOf(last.a)], last.reg[RegOf(last.b)]))
          => /\ fl = {FL_LT}
             /\ Jumping("jne") => Taken
             /\ Jumping("jeq") => NotTaken
       /\ (Jumping("jeq") /\ fl = {FL_EQ}) => Taken
       /\ (Jumping("jeq") /\ fl # {FL_EQ}) => NotTaken
       /\ (Jumping("jne") /\ fl # {FL_EQ}) => Taken
       /\ (Jumping("jne") /\ fl = {FL_EQ}) => NotTaken
      ]_vars

\* a JNE taken right after a CMP that found less-than, to somewhere else than pc + 2
C5_Witness ==
    /\ last.op = "jne" /\ last.ok
    /\ last.prev.op = "alu" /\ last.prev.ir = CMP
    /\ fl = {FL_LT}
    /\ pc = last.reg[RegOf(last.a)]
    /\ pc # I(last.pc.n + 2)

\* C6: fetching an opcode that is not a supported instruction ends the run in an
\* error, with no register, memory, PC, FL or stack-pointer change; it is never a
\* no-op or a normal HLT.
C6_UnsupportedIsError ==
    [][(Executing /\ IR \notin Supported)
         => (status' = "Crashed" /\ UNCHANGED <<ram, reg, pc, fl, SP>>)]_vars

\* C7: DIV a,b with reg[b] = 0 ends the run with a division-by-zero error and
\* leaves every register, PC, FL and memory as they were.
C7_DivByZero ==
    [][(/\ Executing /\ IR = DIV
        /\ ValidIndex(operand_a, RegCount) /\ ValidIndex(operand_b, RegCount)
        /\ IsZero(reg[RegOf(operand_b)]))
         => (/\ status' = "Crashed" /\ err' = "ZeroDivisionError"
             /\ UNCHANGED <<ram, reg, pc, fl, SP, output>>)]_vars

\* a DIV of 8 by 0 has ended the run
C7_Witness ==
    /\ last.op = "alu" /\ last.ir = DIV /\ ~last.ok
    /\ err = "ZeroDivisionError"
    /\ reg[RegOf(last.a)] = I(8) /\ reg[RegOf(last.b)] = I(0)

\* C8: in a newly created machine all memory cells are 0, R0..R6 are 0, R7 is
\* 0xF4, PC is 0 and FL is unset.
C8_InitialState ==
    status = "Created"
        => /\ \A a \in RamAddrs : ram[a] = 0
           /\ \A r \in 0..6 : reg[r] = I(0)
           /\ reg[7] = I(StackTop)
           /\ pc = I(0)
           /\ fl = {}

\* C9: FL is written only by CMP; every other instruction leaves it unchanged, so
\* FL is always unset or the result of the most recently executed CMP.
C9_OnlyCmpWritesFl ==
    [][/\ status = "Created" => fl = {}
       /\ fl' # fl => (Executing /\ IR = CMP)
       /\ (Does("alu") /\ IR = CMP)
          => fl' = CmpFlag(reg[RegOf(operand_a)], reg[RegOf(operand_b)])
      ]_vars

\* C10: every address used by fetch and by PUSH, POP, CALL and RET lies in 0..255;
\* an access outside it ends the run with an error and never wraps to another cell.
StackAddress ==
    IF Handler(IR) \in {"push", "call"} THEN SP - 1
    ELSE IF Handler(IR) \in {"pop", "ret"} THEN SP
    ELSE 0

AddressOutside ==
    /\ status = "Running"
    /\ ~pc.f
    /\ \/ \E k \in 0..2 : pc.n + k \notin RamAddrs
       \/ (FetchError(Self) = "" /\ StackAddress \notin RamAddrs)

C10_AddressesInRange ==
    [][AddressOutside => (status' = "Crashed" /\ ram' = ram)]_vars

\* C11: once the machine has executed HLT or an instruction has raised an error,
\* the machine is Halted (or ended by the error), and from then on no instruction is
\* fetched or executed and no register, memory cell, PC, FL or output changes.
Stopped == status \in {"Halted", "Crashed"}

C11_HaltedIsTerminal ==
    [][/\ (last'.op = "hlt" \/ ~last'.ok) => Stopped'
       /\ Stopped => UNCHANGED vars
      ]_vars

\* a HLT ended a run that had printed, and no step is possible
C11_Witness ==
    /\ status = "Halted" /\ last.op = "hlt"
    /\ output # <<>>
    /\ ~ENABLED Next

\* C12: when load() fails (no file, or a line that does not parse), the caller gets
\* an error before any instruction executes, and the machine is not left runnable
\* with a partly loaded memory.
LoadFailed == output # <<>> /\ output[1] = NotFoundMessage

C12_LoadFailureReported ==
    LoadFailed => (status = "Crashed" /\ last.op = "load")

\* C13: CALL reg at address p decrements the stack pointer by 1, writes p + 2 to
\* memory at the new stack pointer and sets PC to the value of register reg; the
\* stack pointer changes by that decrement only.
C13_CallEffect ==
    [][(Executing /\ Handler(IR) = "call" /\ operand_a \in RegIdx /\ (SP - 1) \in RamAddrs)
         => (/\ status' = "Running"
             /\ SP' = SP - 1
             /\ ram' = [ram EXCEPT ![SP - 1] = pc.n + 2]
             /\ pc' = reg[operand_a])]_vars

\* C14: R7 is the stack pointer in every reachable state: it holds an address in
\* 0..255, PUSH decrements it by 1 and then writes the pushed register's value to
\* memory at R7, and POP reads memory at R7 and then increments it by 1.
C14_R7IsStackPointer ==
    [][/\ reg'[7] \in {I(a) : a \in RamAddrs}
       /\ (Does("push") /\ operand_a \in RegIdx)
            => /\ reg'[7] = PySub(reg[7], I(1))
               /\ ram' = [ram EXCEPT ![reg'[7].n] = reg[operand_a].n]
       /\ (Does("pop") /\ operand_a \in RegIdx \ {7} /\ reg[7] \in {I(a) : a \in RamAddrs})
            => /\ reg'[operand_a] = I(ram[reg[7].n])
               /\ reg'[7] = PyAdd(reg[7], I(1))
      ]_vars

\* C15: for all register values a = reg[x] and b = reg[y], CMP x,y sets FL to
\* exactly one of equal (a = b), less-than (a < b), greater-than (a > b), changes no
\* register and advances PC by 3.
C15_CmpSetsOneFlag ==
    [][(/\ Executing /\ IR = CMP
        /\ ValidIndex(operand_a, RegCount) /\ ValidIndex(operand_b, RegCount))
         => (/\ status' = "Running"
             /\ fl' \in {{FL_EQ}, {FL_LT}, {FL_GT}}
             /\ fl' = {FL_EQ} <=> PyEq(reg[RegOf(operand_a)], reg[RegOf(operand_b)])
             /\ fl' = {FL_LT} <=> PyLt(reg[RegOf(operand_a)], reg[RegOf(operand_b)])
             /\ fl' = {FL_GT} <=> PyGt(reg[RegOf(operand_a)], reg[RegOf(operand_b)])
             /\ reg' = reg
             /\ pc' = I(pc.n + 3))]_vars

\* C16: every register holds an 8-bit value 0..255 in every reachable state: ADD and
\* MUL store their result mod 256, and no ALU operation leaves a negative, a
\* non-integer or a greater-than-255 value in a register.
Is8Bit(x) == x.s = "" /\ x.e = 0 /\ x.d = 1 /\ x.n \in 0..255

C16_Registers8Bit ==
    [][/\ \A r \in RegIdx : Is8Bit(reg'[r])
       /\ (/\ Does("alu") /\ IR \in {ADD, MUL}
           /\ operand_a \in RegIdx /\ operand_b \in RegIdx
           /\ Is8Bit(reg[operand_a]) /\ Is8Bit(reg[operand_b]))
            => reg'[operand_a] =
                 I((IF IR = ADD THEN reg[operand_a].n + reg[operand_b].n
                                ELSE reg[operand_a].n * reg[operand_b].n) % 256)
      ]_vars

\* C17: SHL x,y and SHR x,y shift reg[x] by reg[y] mod 8 bit positions, for every
\* reg[y] in 0..255; a count of 8 or more acts as the count mod 8.
C17_ShiftCountMod8 ==
    [][(/\ Executing /\ IR \in {SHL, SHR}
        /\ operand_a \in RegIdx /\ operand_b \in RegIdx
        /\ Is8Bit(reg[operand_a]) /\ Is8Bit(reg[operand_b]))
         => (/\ status' = "Running"
             /\ reg'[operand_a] =
                  I(IF IR = SHL THEN PyShl(reg[operand_a].n, reg[operand_b].n % 8)
                                ELSE PyShr(reg[operand_a].n, reg[operand_b].n % 8)))]_vars

\* C18: for every supported non-branching instruction one execution step advances
\* PC by 1 plus the operand count in the two high bits of the opcode (3 for LDI and
\* the ALU instructions, 2 for PRN, PUSH, POP and a JEQ or JNE not taken); PC is
\* overwritten only by CALL, RET, JMP and a JEQ or JNE that is taken.
BranchTaken ==
    \/ Handler(IR) \in {"call", "ret", "jmp"}
    \/ Handler(IR) = "jeq" /\ fl = {FL_EQ}
    \/ Handler(IR) = "jne" /\ fl # {FL_EQ}

Advanced == pc' = I(pc.n + 1 + cpu_instruct(IR))

C18_PcAdvance ==
    [][/\ (Executing /\ IR \in Supported /\ ~BranchTaken) => Advanced
       /\ (Executing /\ pc' # pc /\ ~Advanced) => BranchTaken
      ]_vars

\* C18 as amended: for every supported non-branching instruction other than HLT, one
\* execution step that raises no error advances PC by 1 plus the operand count in
\* the two high bits of the opcode: by 3 for LDI and every ALU instruction, by 2 for
\* PRN, PUSH, POP and a JEQ or JNE not taken; HLT and a step that raises leave PC as
\* it was; PC is overwritten only by CALL, RET, JMP and a JEQ or JNE that is taken.
C18_PcAdvanceUnlessStopped ==
    [][/\ (Executing /\ IR \in Supported \ {HLT} /\ ~BranchTaken /\ status' = "Running")
            => /\ Advanced
               /\ (IR = LDI \/ IR \in AluOps) => pc' = I(pc.n + 3)
               /\ IR \in {PRN, PUSH, POP, JEQ, JNE} => pc' = I(pc.n + 2)
       /\ (status = "Running" /\ status' # "Running") => pc' = pc
       /\ (Executing /\ pc' # pc /\ ~Advanced) => BranchTaken
      ]_vars

\* an LDI, an ALU instruction and a PRN have advanced PC by 3, 3 and 2, and HLT has
\* left it there
C18_Witness ==
    /\ status = "Halted" /\ last.op = "hlt" /\ last.prev.op = "prn"
    /\ program = AddProgram
    /\ pc = I(3 + 3 + 3 + 2)

\* C19: during run() memory is written only by PUSH and CALL, at most one cell per
\* execution; every other instruction leaves all 256 cells unchanged.
C19_MemoryWrittenByPushAndCall ==
    [][status = "Running"
         => /\ Cardinality({a \in RamAddrs : ram'[a] # ram[a]}) <= 1
            /\ ram' # ram => (Executing /\ Handler(IR) \in {"push", "call"})
      ]_vars

\* a PUSH has changed the cell below the initial stack address, and a POP has read
\* it back without changing memory
C19_Witness ==
    /\ last.op = "pop" /\ last.ok /\ last.prev.op = "push" /\ last.prev.ok
    /\ SP = StackTop
    /\ ram[StackTop - 1] # 0

\* C20: in an execution that executes no CALL, after every step cpu.SP equals
\* 0xF4 minus the number of PUSH instructions executed plus the number of POP and
\* RET instructions executed.
C20_StackAddressCounts ==
    ~executed.call => SP = StackTop - executed.push + executed.pop + executed.ret

\* C20 as amended: in an execution that executes no CALL, after every step cpu.SP
\* equals 0xF4 minus the number of PUSH instructions executed plus the number of POP
\* and RET instructions executed, an instruction that raised an error not counted;
\* after a PUSH that raised it is one less.
C20_StackAddressCountsUnlessRaised ==
    ~executed.call
        => SP = StackTop - executed.push + executed.pop + executed.ret
                - (IF last.op = "push" /\ ~last.ok THEN 1 ELSE 0)

\* two PUSHes followed by two POPs have returned cpu.SP to its starting value
C20_Witness ==
    /\ ~executed.call
    /\ executed.push = 2 /\ executed.pop = 2
    /\ last.op = "pop" /\ last.ok
    /\ SP = StackTop

=============================================================================
